---- MODULE Spec2Model ----
(***************************************************************************)
(* Model of ssh-brute.py: the candidate generator, the bounded work queue, *)
(* the worker pool, the error-adaptive backoff and the control thread.     *)
(*                                                                         *)
(* A candidate (a Python str) is modelled as the sequence of its           *)
(* characters, each character a one-letter TLA+ string.                    *)
(***************************************************************************)
EXTENDS Integers, Sequences, FiniteSets, TLC

(***************************************************************************)
(* Bounds of the model.                                                    *)
(***************************************************************************)
\* largest requested password length drawn for the generator runs
MaxLen == 3
\* generator runs are drawn only for search spaces |charset|^length <= MaxSpace
MaxSpace == 1000

\* runs of the whole program are drawn only for generators of at most
\* MaxRunItems candidates
MaxRunItems == 5
\* the program's 5000 / 1000 / 500 and its 5 threads, scaled down keeping
\* LOW_WATERMARK < INITIAL_FILL < QUEUE_MAXSIZE; LOW_WATERMARK is above 1 so
\* that the refill loop draws with candidates still queued, and QUEUE_MAXSIZE
\* is below MaxRunItems so that a run has more candidates than the queue holds
QUEUE_MAXSIZE == 4
INITIAL_FILL == 3
LOW_WATERMARK == 2
MAX_THREADS == 2
\* the clock when the program starts (time.time() is far above ERROR_WINDOW)
StartTime == 5
\* at most MaxErrors probes of one run end in a transport error
MaxErrors == 4
\* the clock is read 0..MaxDelay seconds after the program last looked at it
MaxDelay == 3
\* at most MaxSignals SIGINTs are delivered to one run
MaxSignals == 1

(***************************************************************************)
(* Program constants.                                                      *)
(***************************************************************************)
RETRY_DELAY == 2
MAX_ERRORS_BEFORE_PAUSE == 3
PAUSE_DURATION == 10
\* the literal 5 of handle_connection_error: "errors close together"
ERROR_WINDOW == 5

PRIORITY_PATTERNS ==
    [n \in {3} |-> << <<"A","A","A">>, <<"B","B","B">>, <<"C","C","C">>,
                      <<"A","D","M">>, <<"P","W","D">>, <<"S","Y","S">>,
                      <<"A","D","M">>, <<"1","2","3">>, <<"Q","W","E">> >>]

\* string.ascii_uppercase, string.ascii_lowercase, string.digits
ascii_uppercase ==
    <<"A","B","C","D","E","F","G","H","I","J","K","L","M",
      "N","O","P","Q","R","S","T","U","V","W","X","Y","Z">>
ascii_lowercase ==
    <<"a","b","c","d","e","f","g","h","i","j","k","l","m",
      "n","o","p","q","r","s","t","u","v","w","x","y","z">>
digits == <<"0","1","2","3","4","5","6","7","8","9">>
\* the default mixed set: ascii_letters + digits + '!@#$%^&*'
default_charset ==
    ascii_lowercase \o ascii_uppercase \o digits
        \o <<"!","@","#","$","%","^","&","*">>

VARIABLES
    args,       \* the parsed command line: length, upper, lower, digits, special
    gen,        \* the generator object of optimized_generator: where it is suspended
    shutdown,   \* self.shutdown
    found,      \* self.found
    lock,       \* self.lock: 0 when free, else the worker holding it
    queue,      \* self.queue: the items put and not yet got, oldest first
    unfinished, \* self.queue.unfinished_tasks: puts minus task_done calls
    attempts,   \* self.attempts
    connection_errors,   \* self.connection_errors
    consecutive_errors,  \* self.consecutive_errors
    last_error_time,     \* self.last_error_time
    now,        \* the clock, in seconds, when the program last read it or woke up
    mainPc,     \* where the control thread is in run()
    nthreads,   \* run(): the number of threads the start loop creates
    started,    \* run(): len(threads)
    seen,       \* run(): the qsize() the refill loop read in this iteration
    wpc,        \* where each worker thread is in worker()
    witem,      \* worker(): password
    wcur,       \* handle_connection_error(): current_time
    \* history variables
    yielded,    \* what next(gen) has returned so far, with the phase it came from
    probes,     \* number of try_connect calls that have returned
    succeeded,  \* some try_connect call has returned True
    signals,    \* number of SIGINTs handled
    summaries,  \* number of final summaries printed
    wafter,     \* per worker: found was already true when it got its current item
    prev_error_time, \* the value last_error_time had before it was last set
    lastBranch, \* the branch the last completed handle_connection_error call took
    sinceRej,   \* transport errors handled since the last authentication failure (up to 3)
    lateYields  \* candidates next(gen) returned with self.shutdown already true (up to 2)

genVars == <<args, gen, yielded, lateYields>>
flagVars == <<shutdown, found, signals>>
queueVars == <<queue, unfinished>>
errVars == <<connection_errors, consecutive_errors, last_error_time, prev_error_time,
            lastBranch, sinceRej>>
mainVars == <<mainPc, nthreads, started, seen, summaries>>
workerVars == <<wpc, witem, wcur, wafter, probes, succeeded>>

vars == <<args, gen, shutdown, found, lock, queue, unfinished, attempts,
          connection_errors, consecutive_errors, last_error_time, now,
          mainPc, nthreads, started, seen, wpc, witem, wcur,
          yielded, probes, succeeded, signals, summaries, wafter,
          prev_error_time, lastBranch, sinceRej, lateYields>>

Workers == 1..MAX_THREADS

(***************************************************************************)
(* build_charset: the first flag set wins; '' (no --special) is falsy.     *)
(***************************************************************************)
build_charset(a) ==
    IF a.upper THEN ascii_uppercase
    ELSE IF a.lower THEN ascii_lowercase
    ELSE IF a.digits THEN digits
    ELSE IF a.special # <<>> THEN a.special
    ELSE default_charset

charset == build_charset(args)

(***************************************************************************)
(* itertools.product(charset, repeat=length): an odometer of positions     *)
(* into the charset, the rightmost wheel turning fastest.  od is the tuple *)
(* of positions of the element to be produced next.                        *)
(***************************************************************************)
FirstOdometer(n) == [i \in 1..n |-> 1]

RECURSIVE AdvanceFrom(_, _, _)
\* turn wheel i; on overflow reset it and carry into wheel i-1
AdvanceFrom(od, k, i) ==
    IF i = 0 THEN [more |-> FALSE, od |-> od]
    ELSE IF od[i] < k THEN [more |-> TRUE, od |-> [od EXCEPT ![i] = od[i] + 1]]
    ELSE AdvanceFrom([od EXCEPT ![i] = 1], k, i - 1)

\* mutant of Advance: the odometer rolls over and goes on
AdvanceWrap(od, k) == [more |-> TRUE, od |-> AdvanceFrom(od, k, Len(od)).od]

Advance(od, k) == AdvanceFrom(od, k, Len(od))

\* ''.join(pwd) for the tuple the odometer points at
Join(cs, od) == [i \in 1..Len(od) |-> cs[od[i]]]

(***************************************************************************)
(* optimized_generator.  GenInit is the generator object before its first  *)
(* next(); GenNext(g, a, sd) is one next(gen) with self.shutdown = sd: the *)
(* new generator state and the value returned (stop = StopIteration).      *)
(***************************************************************************)
\* mutant of GenInit: the priority phase is skipped
GenInitNoPriority(a) ==
    [phase |-> "prod", pi |-> 1, more |-> TRUE, od |-> FirstOdometer(a.length)]

GenInit(a) ==
    [phase |-> IF a.length \in DOMAIN PRIORITY_PATTERNS THEN "prio" ELSE "prod",
     pi |-> 1, more |-> TRUE, od |-> FirstOdometer(a.length)]

GenStop(g) == [g |-> [g EXCEPT !.phase = "done"], stop |-> TRUE, item |-> <<>>, src |-> "none"]

GenProduct(g, a, sd) ==
    \* the for statement fetches the next tuple, then the body tests self.shutdown
    IF ~g.more \/ sd THEN GenStop(g)
    ELSE LET nx == Advance(g.od, Len(build_charset(a)))
         IN [g |-> [g EXCEPT !.phase = "prod", !.more = nx.more, !.od = nx.od],
             stop |-> FALSE, item |-> Join(build_charset(a), g.od), src |-> "prod"]

GenNext(g, a, sd) ==
    IF g.phase = "prio" /\ g.pi <= Len(PRIORITY_PATTERNS[a.length])
    THEN [g |-> [g EXCEPT !.pi = g.pi + 1], stop |-> FALSE,
          item |-> PRIORITY_PATTERNS[a.length][g.pi], src |-> "prio"]
    ELSE IF g.phase = "done" THEN GenStop(g)
    ELSE GenProduct(g, a, sd)

(***************************************************************************)
(* The command lines drawn.                                                *)
(***************************************************************************)
Specials == { <<>>, <<"A">>, <<"A","B">>, <<"A","A">>, <<"1","2","3">>,
              <<"A","B","C","D","E">> }

RECURSIVE Pow(_, _)
Pow(b, e) == IF e = 0 THEN 1 ELSE b * Pow(b, e - 1)

ArgSet ==
    { a \in [length : 1..MaxLen, upper : BOOLEAN, lower : BOOLEAN,
             digits : BOOLEAN, special : Specials] :
        Pow(Len(build_charset(a)), a.length) <= MaxSpace }

\* the number of candidates the generator holds for command line a
GenTotal(a) ==
    (IF a.length \in DOMAIN PRIORITY_PATTERNS THEN Len(PRIORITY_PATTERNS[a.length]) ELSE 0)
        + Pow(Len(build_charset(a)), a.length)

RunArgSet == { a \in ArgSet : GenTotal(a) <= MaxRunItems }

(***************************************************************************)
(* The state after BruteForcer.__init__.                                   *)
(***************************************************************************)
InitWith(argset) ==
    /\ args \in argset
    /\ gen = GenInit(args)
    /\ shutdown = FALSE
    /\ found = FALSE
    /\ lock = 0
    /\ queue = <<>>
    /\ unfinished = 0
    /\ attempts = 0
    /\ connection_errors = 0
    /\ consecutive_errors = 0
    /\ last_error_time = 0
    /\ now = StartTime
    /\ mainPc = "fill"
    /\ nthreads = 0
    /\ started = 0
    /\ seen = 0
    /\ wpc = [w \in Workers |-> "unborn"]
    /\ witem = [w \in Workers |-> <<>>]
    /\ wcur = [w \in Workers |-> 0]
    /\ yielded = <<>>
    /\ probes = 0
    /\ succeeded = FALSE
    /\ signals = 0
    /\ summaries = 0
    /\ wafter = [w \in Workers |-> FALSE]
    /\ prev_error_time = 0
    /\ lastBranch = "none"
    /\ sinceRej = 0
    /\ lateYields = 0

Init == InitWith(RunArgSet)

InitGen == InitWith(ArgSet)

\* the process lives until run() returns or dies of an uncaught exception
\* (the workers are daemon threads)
Running == mainPc \notin {"done", "crashed"}

Min(a, b) == IF a < b THEN a ELSE b

\* the history of next(gen)
Record(r) == IF r.stop THEN yielded ELSE Append(yielded, [item |-> r.item, src |-> r.src])

\* the history of next(gen): the candidates returned after the flag went up
Late(r) == IF r.stop \/ ~shutdown THEN lateYields ELSE Min(lateYields + 1, 2)

(***************************************************************************)
(* signal_handler: SIGINT, handled in the control thread, which waits for  *)
(* the lock.                                                               *)
(***************************************************************************)
Signal ==
    /\ Running
    /\ signals < MaxSignals
    /\ lock = 0
    /\ shutdown' = TRUE
    /\ found' = TRUE
    /\ signals' = signals + 1
    /\ UNCHANGED <<genVars, lock, queueVars, attempts, errVars, now, mainVars, workerVars>>

(***************************************************************************)
(* run(): the control thread.                                              *)
(***************************************************************************)
\* one iteration of the initial fill loop
Fill ==
    /\ mainPc = "fill"
    /\ IF shutdown \/ Len(queue) >= INITIAL_FILL
       THEN /\ mainPc' = "start"
            /\ UNCHANGED <<genVars, queueVars>>
       ELSE LET r == GenNext(gen, args, shutdown)
            IN /\ gen' = r.g
               /\ yielded' = Record(r)
               /\ lateYields' = Late(r)
               /\ IF r.stop
                  THEN mainPc' = "start" /\ UNCHANGED queueVars
                  ELSE IF Len(queue) >= QUEUE_MAXSIZE
                  \* queue.Full: the bare except sleeps, the item drawn is gone
                  THEN UNCHANGED <<mainPc, queueVars>>
                  ELSE /\ queue' = Append(queue, r.item)
                       /\ unfinished' = unfinished + 1
                       /\ UNCHANGED mainPc
               /\ UNCHANGED args
    /\ UNCHANGED <<flagVars, lock, attempts, errVars, now, nthreads, started, seen,
                   summaries, workerVars>>

\* mutant of StartThreads: range(MAX_THREADS)
StartThreadsFixed ==
    /\ mainPc = "start"
    /\ nthreads' = MAX_THREADS
    /\ mainPc' = "spawn"
    /\ UNCHANGED <<genVars, flagVars, lock, queueVars, attempts, errVars, now, started,
                   seen, summaries, workerVars>>

\* range(min(MAX_THREADS, self.queue.qsize()))
StartThreads ==
    /\ mainPc = "start"
    /\ nthreads' = Min(MAX_THREADS, Len(queue))
    /\ mainPc' = "spawn"
    /\ UNCHANGED <<genVars, flagVars, lock, queueVars, attempts, errVars, now, started,
                   seen, summaries, workerVars>>

\* one iteration of the start loop: t.start(); threads.append(t)
Spawn ==
    /\ mainPc = "spawn"
    /\ IF started < nthreads
       THEN /\ wpc' = [wpc EXCEPT ![started + 1] = "top"]
            /\ started' = started + 1
            /\ UNCHANGED mainPc
       ELSE /\ mainPc' = "refill"
            /\ UNCHANGED <<wpc, started>>
    /\ UNCHANGED <<genVars, flagVars, lock, queueVars, attempts, errVars, now, nthreads,
                   seen, summaries, witem, wcur, wafter, probes, succeeded>>

\* mutant of BelowWatermark: the refill loop puts whatever the size
AnySize(n) == TRUE

\* line 189: the refill loop puts only below the low watermark
BelowWatermark(n) == n < LOW_WATERMARK

\* the refill loop: the while test and the qsize() test (then sleep(0.1))
RefillCheck ==
    /\ mainPc = "refill"
    /\ IF shutdown \/ found
       THEN mainPc' = "cleanup" /\ UNCHANGED seen
       ELSE /\ seen' = Len(queue)
            /\ mainPc' = IF BelowWatermark(Len(queue)) THEN "refill_put" ELSE "refill"
    /\ UNCHANGED <<genVars, flagVars, lock, queueVars, attempts, errVars, now, nthreads,
                   started, summaries, workerVars>>

\* self.queue.put(next(gen), block=False)
RefillPut ==
    /\ mainPc = "refill_put"
    /\ LET r == GenNext(gen, args, shutdown)
       IN /\ gen' = r.g
          /\ yielded' = Record(r)
          /\ lateYields' = Late(r)
          /\ IF r.stop
             THEN mainPc' = "cleanup" /\ UNCHANGED queueVars
             ELSE IF Len(queue) >= QUEUE_MAXSIZE
             \* queue.Full is caught by nothing here: run() dies
             THEN mainPc' = "crashed" /\ UNCHANGED queueVars
             ELSE /\ queue' = Append(queue, r.item)
                  /\ unfinished' = unfinished + 1
                  /\ mainPc' = "refill"
    /\ seen' = 0
    /\ UNCHANGED <<args, flagVars, lock, attempts, errVars, now, nthreads, started,
                   summaries, workerVars>>

\* mutant of Cleanup: the clean-up raises found as well
CleanupSetsFound ==
    /\ mainPc = "cleanup"
    /\ shutdown' = TRUE
    /\ found' = TRUE
    /\ mainPc' = "join"
    /\ UNCHANGED <<genVars, signals, lock, queueVars, attempts, errVars, now,
                   nthreads, started, seen, summaries, workerVars>>

\* self.shutdown = True
Cleanup ==
    /\ mainPc = "cleanup"
    /\ shutdown' = TRUE
    /\ mainPc' = "join"
    /\ UNCHANGED <<genVars, found, signals, lock, queueVars, attempts, errVars, now,
                   nthreads, started, seen, summaries, workerVars>>

\* self.queue.join(): blocks until unfinished_tasks is 0
QueueJoin ==
    /\ mainPc = "join"
    /\ unfinished = 0
    /\ mainPc' = "join_threads"
    /\ UNCHANGED <<genVars, flagVars, lock, queueVars, attempts, errVars, now,
                   nthreads, started, seen, summaries, workerVars>>

\* for t in threads: t.join(timeout=1), which returns after 1 s at the latest
JoinThreads ==
    /\ mainPc = "join_threads"
    /\ mainPc' = "summary"
    /\ UNCHANGED <<genVars, flagVars, lock, queueVars, attempts, errVars, now,
                   nthreads, started, seen, summaries, workerVars>>

\* the three final print calls
Summary ==
    /\ mainPc = "summary"
    /\ summaries' = summaries + 1
    /\ mainPc' = "done"
    /\ UNCHANGED <<genVars, flagVars, lock, queueVars, attempts, errVars, now,
                   nthreads, started, seen, workerVars>>

MainNext ==
    \/ Fill
    \/ StartThreads
    \/ Spawn
    \/ RefillCheck
    \/ RefillPut
    \/ Cleanup
    \/ QueueJoin
    \/ JoinThreads
    \/ Summary

(***************************************************************************)
(* worker(): one worker thread.                                            *)
(***************************************************************************)
\* mutant of Discard: the test after the get is left out
DiscardNever == FALSE

\* line 143: a dequeued item is dropped when a flag is up
Discard == shutdown \/ found

\* while not self.shutdown and not self.found
WhileTest(w) ==
    /\ Running
    /\ wpc[w] = "top"
    /\ wpc' = [wpc EXCEPT ![w] = IF shutdown \/ found THEN "exit" ELSE "get"]
    /\ UNCHANGED <<genVars, flagVars, lock, queueVars, attempts, errVars, now, mainVars,
                   witem, wcur, wafter, probes, succeeded>>

\* self.queue.get_nowait(); queue.Empty leaves the loop
Get(w) ==
    /\ Running
    /\ wpc[w] = "get"
    /\ IF queue = <<>>
       THEN /\ wpc' = [wpc EXCEPT ![w] = "exit"]
            /\ UNCHANGED <<queue, witem, wafter>>
       ELSE /\ witem' = [witem EXCEPT ![w] = Head(queue)]
            /\ queue' = Tail(queue)
            /\ wafter' = [wafter EXCEPT ![w] = found]
            /\ wpc' = [wpc EXCEPT ![w] = "check"]
    /\ UNCHANGED <<genVars, flagVars, lock, unfinished, attempts, errVars, now, mainVars,
                   wcur, probes, succeeded>>

\* if self.shutdown or self.found: task_done(); return
Check(w) ==
    /\ Running
    /\ wpc[w] = "check"
    /\ IF Discard
       THEN /\ unfinished' = unfinished - 1
            /\ wpc' = [wpc EXCEPT ![w] = "exit"]
            /\ witem' = [witem EXCEPT ![w] = <<>>]
       ELSE /\ wpc' = [wpc EXCEPT ![w] = "probe"]
            /\ UNCHANGED <<unfinished, witem>>
    /\ UNCHANGED <<genVars, flagVars, lock, queue, attempts, errVars, now, mainVars,
                   wcur, wafter, probes, succeeded>>

\* try_connect returns True
ProbeSuccess(w) ==
    /\ Running
    /\ wpc[w] = "probe"
    /\ wpc' = [wpc EXCEPT ![w] = "succ"]
    /\ probes' = probes + 1
    /\ succeeded' = TRUE
    /\ UNCHANGED <<genVars, flagVars, lock, queueVars, attempts, errVars, now, mainVars,
                   witem, wcur, wafter>>

\* try_connect: paramiko.AuthenticationException
ProbeAuthFail(w) ==
    /\ Running
    /\ wpc[w] = "probe"
    /\ wpc' = [wpc EXCEPT ![w] = "rej"]
    /\ probes' = probes + 1
    /\ UNCHANGED <<genVars, flagVars, lock, queueVars, attempts, errVars, now, mainVars,
                   witem, wcur, wafter, succeeded>>

\* try_connect: paramiko.SSHException or socket.error
ProbeTransport(w) ==
    /\ Running
    /\ wpc[w] = "probe"
    /\ connection_errors + Cardinality({v \in Workers : wpc[v] = "hce"}) < MaxErrors
    /\ wpc' = [wpc EXCEPT ![w] = "hce"]
    /\ probes' = probes + 1
    /\ UNCHANGED <<genVars, flagVars, lock, queueVars, attempts, errVars, now, mainVars,
                   witem, wcur, wafter, succeeded>>

\* try_connect: any other exception is printed, no counter is touched
ProbeUnexpected(w) ==
    /\ Running
    /\ wpc[w] = "probe"
    /\ wpc' = [wpc EXCEPT ![w] = "count"]
    /\ probes' = probes + 1
    /\ UNCHANGED <<genVars, flagVars, lock, queueVars, attempts, errVars, now, mainVars,
                   witem, wcur, wafter, succeeded>>

\* mutant of AuthReset: the counter is left as it is
AuthResetNot(w) ==
    /\ Running
    /\ wpc[w] = "rej"
    /\ lock = 0
    /\ sinceRej' = 0
    /\ wpc' = [wpc EXCEPT ![w] = "count"]
    /\ UNCHANGED <<genVars, flagVars, lock, queueVars, attempts, connection_errors,
                   consecutive_errors, last_error_time, prev_error_time, lastBranch, now,
                   mainVars, witem, wcur, wafter, probes, succeeded>>

\* with self.lock: self.consecutive_errors = 0; return False
AuthReset(w) ==
    /\ Running
    /\ wpc[w] = "rej"
    /\ lock = 0
    /\ consecutive_errors' = 0
    /\ sinceRej' = 0
    /\ wpc' = [wpc EXCEPT ![w] = "count"]
    /\ UNCHANGED <<genVars, flagVars, lock, queueVars, attempts, connection_errors,
                   last_error_time, prev_error_time, lastBranch, now, mainVars, witem,
                   wcur, wafter, probes, succeeded>>

\* mutant of ErrorBurst: > for >=
ErrorBurstStrict(consecutive, current_time, last) ==
    consecutive > MAX_ERRORS_BEFORE_PAUSE /\ current_time - last < ERROR_WINDOW

\* lines 78-79: many errors close together
ErrorBurst(consecutive, current_time, last) ==
    consecutive >= MAX_ERRORS_BEFORE_PAUSE /\ current_time - last < ERROR_WINDOW

\* the clock is read d seconds after the program last looked at it; a later
\* reading is drawn only while it can change the branch taken
Delays == { d \in 0..MaxDelay : now - last_error_time >= ERROR_WINDOW => d = 0 }

\* handle_connection_error up to the time.sleep call: the lock is taken, the
\* counters are incremented, the clock is read and the branch is chosen
ErrorEnter(w) ==
    /\ Running
    /\ wpc[w] = "hce"
    /\ lock = 0
    /\ lock' = w
    /\ connection_errors' = connection_errors + 1
    /\ consecutive_errors' = consecutive_errors + 1
    /\ \E d \in Delays :
        LET current_time == now + d
        IN /\ now' = current_time
           /\ wcur' = [wcur EXCEPT ![w] = current_time]
           /\ wpc' = [wpc EXCEPT ![w] =
                         IF ErrorBurst(consecutive_errors + 1, current_time, last_error_time)
                         THEN "pause" ELSE "jitter"]
    /\ sinceRej' = Min(sinceRej + 1, 3)
    /\ UNCHANGED <<genVars, flagVars, queueVars, attempts, last_error_time,
                   prev_error_time, lastBranch, mainVars, witem, wafter, probes, succeeded>>

\* the length of the time.sleep call of each branch (the jitter adds less than 1 s)
SleepTime(branch) == IF branch = "pause" THEN PAUSE_DURATION ELSE RETRY_DELAY

\* handle_connection_error from the return of time.sleep, still under the lock;
\* the sleep has lasted its full length
ErrorLeave(w) ==
    /\ Running
    /\ wpc[w] \in {"pause", "jitter"}
    /\ now' = IF now < wcur[w] + SleepTime(wpc[w]) THEN wcur[w] + SleepTime(wpc[w]) ELSE now
    /\ consecutive_errors' = IF wpc[w] = "pause" THEN 0 ELSE consecutive_errors
    /\ last_error_time' = wcur[w]
    /\ prev_error_time' = last_error_time
    /\ lastBranch' = wpc[w]
    /\ lock' = 0
    /\ wpc' = [wpc EXCEPT ![w] = "count"]
    /\ wcur' = [wcur EXCEPT ![w] = 0]
    /\ UNCHANGED <<genVars, flagVars, queueVars, attempts, connection_errors,
                   sinceRej, mainVars, witem, wafter, probes, succeeded>>

\* with self.lock: self.found = True; print; task_done(); return
Succeed(w) ==
    /\ Running
    /\ wpc[w] = "succ"
    /\ lock = 0
    /\ found' = TRUE
    /\ unfinished' = unfinished - 1
    /\ wpc' = [wpc EXCEPT ![w] = "exit"]
    /\ witem' = [witem EXCEPT ![w] = <<>>]
    /\ UNCHANGED <<genVars, shutdown, signals, lock, queue, attempts, errVars, now,
                   mainVars, wcur, wafter, probes, succeeded>>

\* with self.lock: self.attempts += 1 (and the progress line)
Count(w) ==
    /\ Running
    /\ wpc[w] = "count"
    /\ lock = 0
    /\ attempts' = attempts + 1
    /\ wpc' = [wpc EXCEPT ![w] = "task_done"]
    /\ UNCHANGED <<genVars, flagVars, lock, queueVars, errVars, now, mainVars,
                   witem, wcur, wafter, probes, succeeded>>

\* self.queue.task_done() at the end of the loop body
TaskDone(w) ==
    /\ Running
    /\ wpc[w] = "task_done"
    /\ unfinished' = unfinished - 1
    /\ wpc' = [wpc EXCEPT ![w] = "top"]
    /\ witem' = [witem EXCEPT ![w] = <<>>]
    /\ UNCHANGED <<genVars, flagVars, lock, queue, attempts, errVars, now, mainVars,
                   wcur, wafter, probes, succeeded>>

WorkerNext(w) ==
    \/ WhileTest(w)
    \/ Get(w)
    \/ Check(w)
    \/ ProbeSuccess(w)
    \/ ProbeAuthFail(w)
    \/ ProbeTransport(w)
    \/ ProbeUnexpected(w)
    \/ AuthReset(w)
    \/ ErrorEnter(w)
    \/ ErrorLeave(w)
    \/ Succeed(w)
    \/ Count(w)
    \/ TaskDone(w)

Next ==
    \/ MainNext
    \/ \E w \in Workers : WorkerNext(w)
    \/ Signal

Spec == Init /\ [][Next]_vars

\* every thread that can run is eventually scheduled
FairSpec ==
    /\ Spec
    /\ WF_vars(MainNext)
    /\ \A w \in Workers : WF_vars(WorkerNext(w))

(***************************************************************************)
(* The generator on its own: next(gen) until StopIteration, with SIGINT    *)
(* possibly arriving in between.                                           *)
(***************************************************************************)
\* next(gen)
Draw ==
    /\ gen.phase # "done"
    /\ LET r == GenNext(gen, args, shutdown)
       IN /\ gen' = r.g
          /\ yielded' = Record(r)
          /\ lateYields' = Late(r)
    /\ UNCHANGED <<args, flagVars, lock, queueVars, attempts, errVars, now, mainVars,
                   workerVars>>

NextGen == Draw \/ Signal

SpecGen == InitGen /\ [][NextGen]_vars

(***************************************************************************)
(* Properties of the generator, checked under SpecGen.                     *)
(***************************************************************************)
IsProd(r) == r.src = "prod"

\* what the exhaustive phase has yielded so far
ProdItems == SelectSeq(yielded, IsProd)

PrioCount ==
    IF args.length \in DOMAIN PRIORITY_PATTERNS THEN Len(PRIORITY_PATTERNS[args.length]) ELSE 0

Range(f) == { f[i] : i \in DOMAIN f }

\* the i-th string (from 1) of length n over cs, counting with the rightmost
\* position as the least significant digit
Numeral(cs, n, i) ==
    [p \in 1..n |-> cs[(((i - 1) \div Pow(Len(cs), n - p)) % Len(cs)) + 1]]

\* the generator has run to its StopIteration and no SIGINT came
Exhausted == gen.phase = "done" /\ ~shutdown

\* C8: for a length with an entry in PRIORITY_PATTERNS, what the generator
\* yields starts with that entry, item by item in listed order, whatever the
\* charset; nothing of the exhaustive phase comes before the entry is through,
\* and the generator never stops inside it
C8_PriorityFirst ==
    args.length \in DOMAIN PRIORITY_PATTERNS =>
        /\ \A i \in 1..Len(yielded) :
              IF i <= PrioCount
              THEN yielded[i].item = PRIORITY_PATTERNS[args.length][i]
              ELSE yielded[i].src = "prod"
        /\ gen.phase = "done" => Len(yielded) >= PrioCount

\* C8 witness: with --digits and length 3 the whole table, letters included,
\* has been yielded and the exhaustive phase has started
C8_Witness ==
    /\ args.length = 3 /\ ~args.upper /\ ~args.lower /\ args.digits
    /\ Len(yielded) = PrioCount + 2
    /\ yielded[1].item = <<"A","A","A">>
    /\ yielded[PrioCount + 1].item = <<"0","0","0">>

\* C9 as stated: without cancellation the exhaustive phase yields |charset|^length
\* items, every string over the charset exactly once, the i-th being the i-th
\* numeral (rightmost position fastest)
C9_EachStringOnceInOdometerOrder ==
    Exhausted =>
        /\ Len(ProdItems) = Pow(Len(charset), args.length)
        /\ LET got == { ProdItems[i].item : i \in 1..Len(ProdItems) }
           IN /\ got = [1..args.length -> Range(charset)]
              /\ Cardinality(got) = Len(ProdItems)
        /\ \A i \in 1..Len(ProdItems) :
              ProdItems[i].item = Numeral(charset, args.length, i)

\* the charset names no character twice
DistinctCharset == Cardinality(Range(charset)) = Len(charset)

\* what holds of the exhaustive phase for such a charset
C9_ForDistinctCharset == DistinctCharset => C9_EachStringOnceInOdometerOrder

\* C10 as stated: the generator never yields more than |charset|^length items
C10_AtMostSpace == Len(yielded) <= Pow(Len(charset), args.length)

\* C10 amended: the generator never yields more than |charset|^length items
\* plus the priority patterns listed for the length
C10_AtMostSpacePlusPriority == Len(yielded) <= Pow(Len(charset), args.length) + PrioCount

\* C10 witness: a generator run to its end that yielded exactly that many
C10_Witness ==
    /\ Exhausted
    /\ PrioCount > 0
    /\ Len(yielded) = Pow(Len(charset), args.length) + PrioCount

(***************************************************************************)
(* Properties of a run, checked under Spec and FairSpec.                   *)
(***************************************************************************)
\* a worker thread that was started has returned from worker(), or the process is over
Gone(w) == wpc[w] \in {"unborn", "exit"} \/ ~Running

Sleeping(w) == wpc[w] \in {"pause", "jitter"}

\* C1 as stated: when run() has printed its summary, attempts is the number of
\* candidates that were dequeued and probed, whatever the probe returned
C1_AttemptsCountEveryProbe == mainPc = "done" => attempts = probes

\* C2: found never goes back to false, and no worker is probing an item that
\* it took from the queue when found was already true
C2_NoProbeAfterFound ==
    /\ [](\A w \in Workers : wpc[w] = "probe" => ~wafter[w])
    /\ [][found => found']_vars

\* C2 witness: after a success, a worker that dequeued an item with found
\* already true has returned without probing it
C2_Witness ==
    /\ succeeded /\ found /\ signals = 0
    /\ \E w \in Workers : wafter[w] /\ wpc[w] = "exit"

\* C3 as stated: once a probe has returned Success the run ends, the control
\* thread printing its summary
C3_SuccessEndsRun == succeeded ~> (mainPc = "done" /\ \A w \in Workers : Gone(w))

\* C4 as stated: after a SIGINT shutdown is true, the workers terminate and
\* the control thread prints exactly one summary
C4_CancelEndsRun ==
    /\ [](signals > 0 => shutdown)
    /\ [](summaries <= 1)
    /\ signals > 0 ~> (\A w \in Workers : Gone(w))
    /\ signals > 0 ~> (mainPc = "done" /\ summaries = 1)

\* C5 as stated: once the generator has raised StopIteration the run ends with
\* the summary, unless a success or a SIGINT ends it otherwise
C5_ExhaustionEndsRun ==
    gen.phase = "done" ~> (mainPc = "done" \/ succeeded \/ signals > 0)

\* C6: the queue never holds more than its capacity, and every put of the
\* refill loop follows a qsize() below the low watermark, the queue being
\* below it at the put as well
C6_QueueBounded ==
    /\ [](Len(queue) <= QUEUE_MAXSIZE)
    /\ [][mainPc = "refill_put" /\ Len(queue') > Len(queue)
            => seen < LOW_WATERMARK /\ Len(queue) < LOW_WATERMARK]_vars

\* C6 witness: the refill loop has put an item, drawn after the initial fill
C6_Witness ==
    /\ mainPc = "refill"
    /\ Len(yielded) > INITIAL_FILL
    /\ queue # <<>>
    /\ queue[Len(queue)] = yielded[Len(yielded)].item

\* worker w is handling the third transport error of a 5-second window
ThirdInWindow(w) == Sleeping(w) /\ wcur[w] - prev_error_time < ERROR_WINDOW

\* C7 as stated: the third transport error handled within 5 seconds always
\* takes the 10-second pause
C7_ThirdErrorAlwaysPauses == \A w \in Workers : ThirdInWindow(w) => wpc[w] = "pause"

\* C7 amended: the third transport error handled within 5 seconds, with no
\* authentication failure handled between the first and the third, takes the
\* pause; the pause lasts PAUSE_DURATION and leaves consecutive_errors at 0;
\* the transport error handled next takes the jittered delay
C7_ThirdErrorInARowPauses ==
    /\ [](\A w \in Workers :
            /\ ThirdInWindow(w) /\ sinceRej >= 3 => wpc[w] = "pause"
            /\ Sleeping(w) /\ lastBranch = "pause" => wpc[w] = "jitter")
    /\ [][\A w \in Workers :
            wpc[w] = "pause" /\ wpc'[w] # "pause"
                => consecutive_errors' = 0 /\ now' >= wcur[w] + PAUSE_DURATION]_vars

\* C7 witness: a worker in the pause, for the third error in a row of a window
C7_Witness == \E w \in Workers : ThirdInWindow(w) /\ sinceRej >= 3 /\ wpc[w] = "pause"

(***************************************************************************)
(* Further properties of a run and of the generator.                       *)
(***************************************************************************)
\* C11: found is true only after a probe has returned True or a SIGINT was
\* handled, and it goes up only in the step of a worker that leaves its
\* success branch or in the signal handler; the clean-up of run() and the
\* exhaustion of the generator leave it alone
C11_FoundOnlyBySuccessOrSignal ==
    /\ [](found => succeeded \/ signals > 0)
    /\ [][~found /\ found' =>
            \/ signals' > signals
            \/ \E w \in Workers : wpc[w] = "succ" /\ wpc'[w] = "exit"]_vars

\* C11 witness: found was raised by a success alone, and the clean-up has run
C11_Witness == found /\ succeeded /\ signals = 0 /\ shutdown /\ mainPc = "join"

\* the fields of RunState
RunStateFields ==
    <<attempts, found, shutdown, consecutive_errors, connection_errors, last_error_time>>

\* C12 as stated: every write to a RunState field is made by a thread holding
\* the lock, so none is made while another thread holds it (a step that
\* changes a field is a step of the holder, or the lock is free for the writer)
C12_WritesUnderLock ==
    [][RunStateFields' # RunStateFields => lock = 0 \/ wpc'[lock] # wpc[lock]]_vars

\* C13 as stated: a worker sleeping in its backoff does not hold the lock
C13_NoSleepUnderLock == \A w \in Workers : Sleeping(w) => lock # w

\* the start loop of run() is over
ThreadsStarted == mainPc \notin {"fill", "start", "spawn"}

\* C14 as stated: once the start loop is over, MAX_THREADS workers have been started
C14_AlwaysMaxThreads == ThreadsStarted => started = MAX_THREADS

\* C14 amended: the number of workers started is the smaller of MAX_THREADS and
\* the number of candidates in the queue when the startup fill ends; they are
\* started before the refill loop begins and none is started afterwards
C14_ThreadsMinOfQueue ==
    /\ [](ThreadsStarted =>
            /\ started = nthreads
            /\ started <= MAX_THREADS
            /\ started <= Len(yielded)
            /\ signals = 0 => started = Min(MAX_THREADS, Min(INITIAL_FILL, GenTotal(args)))
            /\ \A w \in Workers : wpc[w] = "unborn" <=> w > started)
    /\ [][mainPc = "start" /\ mainPc' # "start"
            => nthreads' = Min(MAX_THREADS, Len(queue))]_vars
    /\ [][ThreadsStarted => started' = started]_vars

\* C14 witness: a run whose startup fill queued one candidate has started one
\* worker, fewer than MAX_THREADS, and is in its refill loop
C14_Witness ==
    /\ mainPc = "refill" /\ signals = 0
    /\ GenTotal(args) = 1
    /\ started = 1 /\ started < MAX_THREADS

\* C15: the step that handles an authentication failure sets
\* consecutive_errors to 0 and leaves connection_errors and last_error_time;
\* an unexpected exception changes no error field, takes no lock and lets no
\* time pass; either way the worker counts the attempt next, marks the task
\* done and is back at its while test
C15_RejectedAndUnexpectedFrame ==
    /\ [][\A w \in Workers :
            /\ wpc[w] = "rej" /\ wpc'[w] # "rej" =>
                  /\ consecutive_errors' = 0
                  /\ connection_errors' = connection_errors
                  /\ last_error_time' = last_error_time
                  /\ wpc'[w] = "count"
            /\ wpc[w] = "probe" /\ wpc'[w] = "count" =>
                  /\ consecutive_errors' = consecutive_errors
                  /\ connection_errors' = connection_errors
                  /\ last_error_time' = last_error_time
                  /\ now' = now /\ lock' = lock
            /\ wpc[w] = "count" /\ wpc'[w] # "count" =>
                  attempts' = attempts + 1 /\ wpc'[w] = "task_done"
            /\ wpc[w] = "task_done" /\ wpc'[w] # "task_done" => wpc'[w] = "top"]_vars
    /\ [](\A w \in Workers : wpc[w] \in {"rej", "count", "task_done"} => lock # w)

\* C15 witness: an authentication failure has just cleared the counter that
\* an earlier transport error had raised, and the worker is about to count
C15_Witness ==
    \E w \in Workers :
        /\ wpc[w] = "count"
        /\ sinceRej = 0 /\ connection_errors > 0 /\ consecutive_errors = 0
        /\ lastBranch = "jitter"

\* C16 as stated: with shutdown true the generator yields at most one more candidate
C16_AtMostOneLateYield == lateYields <= 1

\* C17 as stated: after a SIGINT, when every worker started has returned, the
\* queue is empty
C17_QueueDrainedAfterCancel ==
    (/\ signals > 0
     /\ ThreadsStarted /\ started > 0
     /\ \A w \in Workers : wpc[w] \in {"unborn", "exit"})
        => queue = <<>>

\* C18 as stated: no candidate string is handed to the probe more than once;
\* in particular no two workers are ever probing the same string
C18_NoStringProbedTwice ==
    \A v, w \in Workers :
        v # w /\ wpc[v] = "probe" /\ wpc[w] = "probe" => witem[v] # witem[w]

\* C19 as stated: a run without success and without SIGINT that has ended has
\* probed every candidate the generator yielded
C19_AllYieldedProbed ==
    mainPc = "done" /\ ~succeeded /\ signals = 0 => probes = Len(yielded)

\* C20: a put never finds the queue full (run() never dies of queue.Full and
\* the startup fill never drops an item): every candidate next(gen) returns is
\* appended to the queue in the same step, the queue being below the fill
\* target in the startup fill and below the low watermark in the refill loop
C20_EveryDrawnEnqueued ==
    /\ [](mainPc # "crashed")
    /\ [][Len(yielded') > Len(yielded) =>
            /\ queue' = Append(queue, yielded'[Len(yielded')].item)
            /\ Len(queue) < (IF mainPc = "fill" THEN INITIAL_FILL ELSE LOW_WATERMARK)
            /\ Len(queue') <= QUEUE_MAXSIZE]_vars

\* C20 witness: a generator of more candidates than the queue can hold has
\* been drawn to its end by the refill loop
C20_Witness ==
    /\ mainPc = "cleanup" /\ gen.phase = "done"
    /\ signals = 0 /\ ~found
    /\ Len(yielded) > QUEUE_MAXSIZE

====
